---- MODULE Spec2Model ----
(***************************************************************************)
(* Model of the tracing adapters of dd-trace-go:                           *)
(*   - contrib/google.golang.org/grpc.v12/grpc.go: UnaryServerInterceptor, *)
(*     UnaryClientInterceptor, startSpanFromContext;                       *)
(*   - contrib/database/sql: Register / Open / tracedConnector.Connect     *)
(*     (only its tests are in the source tree).                            *)
(***************************************************************************)
EXTENDS Integers, Sequences, FiniteSets, TLC

\* ------------------------------------------------------------------ bounds

\* number of calls made through the interceptors (they may run concurrently)
MaxCalls == 2
Calls == 1..MaxCalls

\* ------------------------------------------------------- values and strings

Nil == "nil"

\* a string that is processed character by character is a sequence of characters
Digits == <<"0", "1", "2", "3", "4", "5", "6", "7", "8", "9">>

DigitVal(ch) == (CHOOSE i \in 1..10 : Digits[i] = ch) - 1

IsDigit(ch) == \E i \in 1..10 : Digits[i] = ch

\* strconv.FormatUint(n, 10), as the tracer's Inject writes the identifiers
RECURSIVE FormatUint(_)
FormatUint(n) ==
    IF n < 10 THEN <<Digits[n + 1]>>
    ELSE Append(FormatUint(n \div 10), Digits[(n % 10) + 1])

\* strconv.ParseUint(s, 10, 64): [ok, val]
RECURSIVE ParseDigits(_, _)
ParseDigits(s, acc) ==
    IF s = <<>> THEN acc
    ELSE ParseDigits(Tail(s), acc * 10 + DigitVal(Head(s)))

ParseUint(s) ==
    IF s = <<>> \/ \E i \in 1..Len(s) : ~IsDigit(s[i])
    THEN [ok |-> FALSE, val |-> 0]
    ELSE [ok |-> TRUE, val |-> ParseDigits(s, 0)]

\* ---------------------------------------------------------- net.SplitHostPort

IndexOf(s, ch) ==
    IF \E i \in 1..Len(s) : s[i] = ch
    THEN CHOOSE i \in 1..Len(s) : s[i] = ch /\ \A j \in 1..(i - 1) : s[j] # ch
    ELSE 0

LastIndexOf(s, ch) ==
    IF \E i \in 1..Len(s) : s[i] = ch
    THEN CHOOSE i \in 1..Len(s) : s[i] = ch /\ \A j \in (i + 1)..Len(s) : s[j] # ch
    ELSE 0

SplitErr == [ok |-> FALSE, host |-> <<>>, port |-> <<>>]

\* net.SplitHostPort(addr) on a 1-based character sequence: [ok, host, port]
SplitHostPort(hp) ==
    LET i == LastIndexOf(hp, ":") IN
    IF i = 0 THEN SplitErr
    ELSE IF hp[1] = "["
    THEN LET end == IndexOf(hp, "]") IN
         IF end = 0 THEN SplitErr
         ELSE IF end = Len(hp) THEN SplitErr
         ELSE IF end + 1 # i THEN SplitErr
         ELSE IF IndexOf(SubSeq(hp, 2, Len(hp)), "[") # 0 THEN SplitErr
         ELSE IF IndexOf(SubSeq(hp, end + 1, Len(hp)), "]") # 0 THEN SplitErr
         ELSE [ok |-> TRUE, host |-> SubSeq(hp, 2, end - 1),
               port |-> SubSeq(hp, i + 1, Len(hp))]
    ELSE IF IndexOf(SubSeq(hp, 1, i - 1), ":") # 0 THEN SplitErr
         ELSE IF IndexOf(hp, "[") # 0 THEN SplitErr
         ELSE IF IndexOf(hp, "]") # 0 THEN SplitErr
         ELSE [ok |-> TRUE, host |-> SubSeq(hp, 1, i - 1),
               port |-> SubSeq(hp, i + 1, Len(hp))]

\* the address of the peer of the connection, as its String() gives it:
\* "h:5", ":5" (empty host) or "h" (no port, e.g. a unix socket)
PeerAddrs ==
    { <<"h", ":", "5">>, <<":", "5">>, <<"h">> }

\* p.Addr == nil
NoAddr == <<>>

\* ------------------------------------------------------------ start options

NoParent == [traceID |-> 0, spanID |-> 0]

Tag(k, v) == [opt |-> "Tag", key |-> k, val |-> v, ctx |-> NoParent]
ServiceName(s) == Tag("service.name", s)
ResourceName(r) == Tag("resource.name", r)
SpanType(t) == Tag("span.type", t)
Measured == Tag("_dd.measured", "1")
ChildOf(sctx) == [opt |-> "ChildOf", key |-> "", val |-> "", ctx |-> sctx]

\* the tags a list of start options leaves on the span: the last option wins
RECURSIVE TagsOf(_)
TagsOf(opts) ==
    IF opts = <<>> THEN <<>>
    ELSE LET rest == TagsOf(SubSeq(opts, 1, Len(opts) - 1))
             o == opts[Len(opts)]
         IN IF o.opt = "Tag"
            THEN [k \in (DOMAIN rest) \cup {o.key} |->
                    IF k = o.key THEN o.val ELSE rest[k]]
            ELSE rest

RECURSIVE ParentOf(_)
ParentOf(opts) ==
    IF opts = <<>> THEN NoParent
    ELSE IF opts[Len(opts)].opt = "ChildOf" THEN opts[Len(opts)].ctx
    ELSE ParentOf(SubSeq(opts, 1, Len(opts) - 1))


\* ------------------------------------------------ interceptor configuration

\* defaults(cfg): nothing set; the service name is resolved by the interceptor
\* a nil slice
NilSlice == [elems |-> <<>>, cap |-> 0]

Defaults ==
    [serviceName |-> "", analyticsRate |-> "NaN", spanOpts |-> NilSlice]

\* the option-functions: each sets one field of the configuration
WithServiceName(s) == [field |-> "serviceName", str |-> s, slice |-> NilSlice]
WithAnalyticsRate(r) == [field |-> "analyticsRate", str |-> r, slice |-> NilSlice]
WithSpanOptions(elems, cap) ==
    [field |-> "spanOpts", str |-> "", slice |-> [elems |-> elems, cap |-> cap]]

\* fn(cfg)
ApplyOption(cfg, o) ==
    CASE o.field = "serviceName" -> [cfg EXCEPT !.serviceName = o.str]
      [] o.field = "analyticsRate" -> [cfg EXCEPT !.analyticsRate = o.str]
      [] o.field = "spanOpts" -> [cfg EXCEPT !.spanOpts = o.slice]

\* the options applied last to first, so that the earlier one wins
RECURSIVE ApplyOptionsReversed(_, _)
ApplyOptionsReversed(cfg, opts) ==
    IF opts = <<>> THEN cfg
    ELSE ApplyOption(ApplyOptionsReversed(cfg, Tail(opts)), Head(opts))

\* for _, fn := range opts { fn(cfg) }
RECURSIVE ApplyOptions(_, _)
ApplyOptions(cfg, opts) ==
    IF opts = <<>> THEN cfg
    ELSE ApplyOptions(ApplyOption(cfg, Head(opts)), Tail(opts))

\* the configuration UnaryServerInterceptor(opts...) builds
ServerConfig(opts, global) ==
    LET cfg == ApplyOptions(Defaults, opts) IN
    IF cfg.serviceName = ""
    THEN [cfg EXCEPT !.serviceName = IF global # "" THEN global ELSE "grpc.server"]
    ELSE cfg

\* the configuration UnaryClientInterceptor(opts...) builds
ClientConfig(opts, global) ==
    LET cfg == ApplyOptions(Defaults, opts) IN
    IF cfg.serviceName = ""
    THEN [cfg EXCEPT !.serviceName = "grpc.client"]
    ELSE cfg


\* ------------------------------------------------------ metadata and carrier

EmptyMap == [k \in {} |-> <<>>]

TraceHeader == "x-datadog-trace-id"
ParentHeader == "x-datadog-parent-id"

\* MDCarrier.Set(key, val): md[key] = []string{val}
MDSet(md, k, v) ==
    [x \in (DOMAIN md) \cup {k} |-> IF x = k THEN <<v>> ELSE md[x]]

\* what ForeachKey leaves for header k: [ok, val]; a missing header leaves 0
HeaderValue(md, k) ==
    IF k \notin DOMAIN md \/ md[k] = <<>> THEN [ok |-> TRUE, val |-> 0]
    ELSE IF \E i \in 1..Len(md[k]) : ~ParseUint(md[k][i]).ok
    THEN [ok |-> FALSE, val |-> 0]
    ELSE ParseUint(md[k][Len(md[k])])

\* tracer.Inject(sctx, MDCarrier(md)): the map md after the call
Inject(sctx, md) ==
    MDSet(MDSet(md, TraceHeader, FormatUint(sctx.traceID)),
          ParentHeader, FormatUint(sctx.spanID))

\* tracer.Extract(MDCarrier(md)): [ok, ctx]; ok is err == nil
Extract(md) ==
    LET t == HeaderValue(md, TraceHeader)
        p == HeaderValue(md, ParentHeader)
    IN IF ~t.ok \/ ~p.ok THEN [ok |-> FALSE, ctx |-> NoParent]
       ELSE IF t.val = 0 \/ p.val = 0 THEN [ok |-> FALSE, ctx |-> NoParent]
       ELSE [ok |-> TRUE, ctx |-> [traceID |-> t.val, spanID |-> p.val]]

\* the metadata object a caller may have put in its context
CallerMD == [k \in {"authorization"} |-> << <<"t">> >>]

\* ------------------------------------------------------------------- spans

NoSpan ==
    [started |-> 0, finished |-> 0, name |-> "", tags |-> EmptyMap,
     traceID |-> 0, parentID |-> 0, error |-> Nil, late |-> FALSE]

\* identifiers the tracer gives the spans of call c (unique, non-zero)
CliSpanID(c) == 7 + 2 * c
SrvSpanID(c) == 8 + 2 * c
SpanIDs == { CliSpanID(c) : c \in Calls } \cup { SrvSpanID(c) : c \in Calls }

\* tracer.StartSpanFromContext(ctx, name, opts...) for a context without an
\* active span: the span record with identifier id
StartSpan(sp, id, name, opts) ==
    LET parent == ParentOf(opts) IN
    [sp EXCEPT !.started = @ + 1,
               !.name = name,
               !.tags = TagsOf(opts),
               !.parentID = parent.spanID,
               !.traceID = IF parent.spanID = 0 THEN id ELSE parent.traceID]

\* span.SetTag(key, value)
SetTag(sp, k, v) ==
    IF sp.finished > 0 THEN [sp EXCEPT !.late = TRUE]
    ELSE [sp EXCEPT !.tags = [x \in (DOMAIN sp.tags) \cup {k} |->
                                 IF x = k THEN v ELSE sp.tags[x]]]

\* span.Finish(tracer.WithError(err))
Finish(sp, err) ==
    [sp EXCEPT !.finished = @ + 1, !.error = IF sp.finished = 0 THEN err ELSE @]

\* grpc.Code(err).String()
Code(err) ==
    CASE err = Nil -> "OK"
      [] err = "canceled" -> "Canceled"
      [] err = "unavailable" -> "Unavailable"
      [] OTHER -> "Unknown"


\* --------------------------------------------------------------- the state

VARIABLES
    globalService,  \* globalconfig.ServiceName()
    ctorOpts,       \* the options both interceptors were constructed with
    srvCfg,         \* cfg of the function UnaryServerInterceptor returned
    cliCfg,         \* cfg of the function UnaryClientInterceptor returned
    backing,        \* the backing arrays of srvCfg.spanOpts and cliCfg.spanOpts
    call,           \* per call: position and locals of the interceptor closures
    spans,          \* the tracer's spans, by identifier
    mdHeap,         \* the metadata.MD maps, by object: 0 is the caller's
    ctxMD,          \* the metadata object in the callers' context: 0, or -1 for none
    peerAddr        \* the address of the peer the connection cc reaches

\* what the construction of the interceptors and the callers fix
setup == <<globalService, ctorOpts, srvCfg, cliCfg, ctxMD, peerAddr>>

grpcVars == <<setup, backing, call, spans, mdHeap>>

VARIABLES
    cfgIn,          \* the option lists given to the constructors, Register and Open
    cfgOut,         \* the configurations they built
    registry,       \* the table of registered drivers, by name
    regLock,        \* the goroutine holding the mutex of the table, 0 for none
    reg,            \* per goroutine calling Register: position and locals
    regFault,       \* the table was accessed by two goroutines at once
    conn,           \* per Connect attempt: position, context, underlying call
    connSpans       \* per Connect attempt: its span

optVars == <<cfgIn, cfgOut>>
regVars == <<registry, regLock, reg, regFault>>
connVars == <<conn, connSpans>>

\* the state of the database/sql adapter and of the option lists
others == <<optVars, regVars, connVars>>

vars == <<grpcVars, others>>

tagMethod == "grpc.method.name"
tagCode == "grpc.code"

\* the full method name of call c
Method(c) == "/grpc.Fixture/Ping" \o ToString(c)

\* an unused slot of a backing array
Hole == Tag("", "")

\* the array behind a slice of capacity cap holding elems
Padded(slice) ==
    [i \in 1..slice.cap |-> IF i <= Len(slice.elems) THEN slice.elems[i] ELSE Hole]

\* tracer.Tag("foo", "bar"), as the tests pass to WithSpanOptions
UserOpts == <<Tag("foo", "bar")>>

\* the option lists the interceptors are constructed with: no option, span
\* options in a full slice, or a service name and span options in a slice with
\* room for four more
CtorOptLists ==
    << <<>>,
       <<WithSpanOptions(UserOpts, Len(UserOpts))>>,
       <<WithServiceName("opt-svc"), WithSpanOptions(UserOpts, Len(UserOpts) + 4)>> >>

NoResult == [resp |-> Nil, err |-> Nil]

\* what a handler may return: a reply, an error, or the cancellation error
HandlerResults ==
    { [resp |-> "reply", err |-> Nil],
      [resp |-> Nil, err |-> "internal"],
      [resp |-> Nil, err |-> "canceled"] }

InitCall ==
    [pc |-> "idle",
     spanopts |-> [shared |-> FALSE, priv |-> <<>>, len |-> 0],
     md |-> -1, wire |-> EmptyMap, peer |-> NoAddr,
     hres |-> NoResult, sret |-> NoResult, ierr |-> Nil, cret |-> Nil,
     scalls |-> 0, hcalls |-> 0, icalls |-> 0]

\* the state once both interceptors are constructed, the inputs drawn from the
\* given sets
InitGrpc(globals, setups, peers) ==
    /\ globalService \in globals
    /\ \E su \in setups :
         /\ ctorOpts = su[1]
         /\ srvCfg = ServerConfig(su[1], globalService)
         /\ cliCfg = ClientConfig(su[1], globalService)
         /\ ctxMD = su[2]
    /\ backing = [client |-> Padded(cliCfg.spanOpts), server |-> Padded(srvCfg.spanOpts)]
    /\ call = [c \in Calls |-> InitCall]
    /\ spans = [id \in SpanIDs |-> NoSpan]
    /\ mdHeap = [m \in 0..MaxCalls |-> IF m = 0 THEN CallerMD ELSE EmptyMap]
    /\ peerAddr \in peers

\* ------------------------------------------------------- option lists

\* number of options in a list
MaxOpts == 2

\* the options a list is drawn from
AllOptions ==
    { WithServiceName(""), WithServiceName("svc-a"), WithServiceName("svc-b"),
      WithAnalyticsRate("0.2"), WithSpanOptions(UserOpts, Len(UserOpts)) }

RECURSIVE SeqsUpTo(_, _)
SeqsUpTo(S, n) ==
    IF n = 0 THEN { <<>> }
    ELSE LET shorter == SeqsUpTo(S, n - 1)
         IN shorter \cup { Append(q, x) : q \in shorter, x \in S }

NoCfg == [serviceName |-> Nil, analyticsRate |-> Nil, spanOpts |-> NilSlice]

IdleOpt ==
    /\ cfgIn = [global |-> "", first |-> <<>>, second |-> <<>>]
    /\ cfgOut = [server |-> NoCfg, client |-> NoCfg, registered |-> NoCfg, opened |-> NoCfg]

\* ------------------------------------------------------------ Register

\* goroutines calling Register, and the driver names they use
MaxRegs == 3
MaxNames == 2

Goroutines == 1..MaxRegs
Names == 1..MaxNames

NoEntry == [owner |-> 0, writes |-> 0]

InitReg ==
    /\ registry = [n \in Names |-> NoEntry]
    /\ regLock = 0
    /\ reg = [g \in Goroutines |-> [pc |-> "idle", name |-> 0, found |-> FALSE]]
    /\ regFault = FALSE

\* ------------------------------------------------------------- Connect

\* Connect attempts on a traced connector
MaxConns == 2

Attempts == 1..MaxConns

NoConnSpan == [started |-> 0, finished |-> 0, name |-> "", queryType |-> "", error |-> Nil]

InitConn ==
    /\ conn = [a \in Attempts |->
                 [pc |-> "idle", kind |-> "", cancelled |-> FALSE,
                  under |-> "idle", result |-> Nil, ret |-> Nil]]
    /\ connSpans = [a \in Attempts |-> NoConnSpan]

\* ---------------------------------------------------------- initial states

\* concurrent calls: the interceptors without options, the callers' context
\* with or without metadata; or with a service name and span options
Init ==
    /\ IdleOpt /\ InitReg /\ InitConn
    /\ InitGrpc({"global-svc"},
                { <<CtorOptLists[1], -1>>, <<CtorOptLists[1], 0>>,
                  <<CtorOptLists[3], -1>> },
                {<<"h", ":", "5">>})

\* calls one after the other: every configuration and every peer address
InitSeq ==
    /\ IdleOpt /\ InitReg /\ InitConn
    /\ InitGrpc({"", "global-svc"}, {CtorOptLists[i] : i \in 1..3} \X {-1, 0},
                PeerAddrs)

\* no call is made through the interceptors
IdleGrpc == InitGrpc({""}, {<<CtorOptLists[1], -1>>}, {<<"h", ":", "5">>})

\* --------------------------------------------------- UnaryClientInterceptor

\* the four options the client interceptor appends for a call of method
ClientItems(method) ==
    << Tag(tagMethod, method), SpanType("rpc"),
       Tag("component", "google.golang.org/grpc.v12"), Tag("span.kind", "client") >>

\* append(s, items...) writes into the array of s when len(s)+len(items) <= cap(s)
AppendInPlace(len, cap, n) == len + n <= cap

\* arr with items written at positions len+1 .. len+Len(items)
WriteAt(arr, len, items) ==
    [i \in 1..Len(arr) |->
        IF i > len /\ i <= len + Len(items) THEN items[i - len] ELSE arr[i]]

\* the elements of the slice s of call c
SliceElems(s, arr) == IF s.shared THEN SubSeq(arr, 1, s.len) ELSE s.priv

\* lines 82-93: spanopts := cfg.spanOpts; spanopts = append(spanopts, ...)
ClientAppend(c) ==
    /\ call[c].pc = "idle"
    /\ LET L == Len(cliCfg.spanOpts.elems)
           K == cliCfg.spanOpts.cap
           items == ClientItems(Method(c))
           inplace == AppendInPlace(L, K, Len(items))
       IN /\ backing' = IF inplace
                        THEN [backing EXCEPT !.client = WriteAt(@, L, items)]
                        ELSE backing
          /\ call' = [call EXCEPT
               ![c].pc = "appended",
               ![c].spanopts =
                   IF inplace
                   THEN [shared |-> TRUE, priv |-> <<>>, len |-> L + Len(items)]
                   ELSE [shared |-> FALSE,
                         priv |-> SubSeq(backing.client, 1, L) \o items,
                         len |-> L + Len(items)]]
    /\ UNCHANGED <<setup, spans, mdHeap, others>>

\* line 94: span, ctx = tracer.StartSpanFromContext(ctx, "grpc.client", spanopts...)
ClientStartSpan(c) ==
    /\ call[c].pc = "appended"
    /\ spans' = [spans EXCEPT ![CliSpanID(c)] =
          StartSpan(@, CliSpanID(c), "grpc.client",
                    SliceElems(call[c].spanopts, backing.client))]
    /\ call' = [call EXCEPT ![c].pc = "started"]
    /\ UNCHANGED <<setup, backing, mdHeap, others>>

\* line 95-98: the metadata object the interceptor injects into
InjectTarget(c, m) == IF m # -1 THEN m ELSE c

\* lines 95-100: FromContext, Inject, NewContext
ClientInject(c) ==
    /\ call[c].pc = "started"
    /\ LET m == InjectTarget(c, ctxMD)
           sp == spans[CliSpanID(c)]
       IN /\ mdHeap' = [mdHeap EXCEPT ![m] =
                 Inject([traceID |-> sp.traceID, spanID |-> CliSpanID(c)], @)]
          /\ call' = [call EXCEPT ![c].pc = "injected", ![c].md = m]
    /\ UNCHANGED <<setup, backing, spans, others>>

\* line 102: the invoker sends the request with the metadata of its context
InvokerSend(c) ==
    /\ call[c].pc = "injected"
    /\ call' = [call EXCEPT ![c].pc = "sent",
                            ![c].icalls = @ + 1,
                            ![c].wire = mdHeap[call[c].md]]
    /\ UNCHANGED <<setup, backing, spans, mdHeap, others>>

\* line 102: the invoker fails before it reaches a peer
InvokerFail(c) ==
    /\ call[c].pc = "injected"
    /\ call' = [call EXCEPT ![c].pc = "invoked",
                            ![c].icalls = @ + 1,
                            ![c].ierr = "unavailable"]
    /\ UNCHANGED <<setup, backing, spans, mdHeap, others>>

\* line 102: the invoker returns the server's answer and the peer it resolved
InvokerReturn(c) ==
    /\ call[c].pc = "replied"
    /\ call' = [call EXCEPT ![c].pc = "invoked",
                            ![c].peer = peerAddr,
                            ![c].ierr = call[c].sret.err]
    /\ UNCHANGED <<setup, backing, spans, mdHeap, others>>

\* lines 103-113: the target host and port tags, and the status code tag
ClientTagged(sp, addr, err) ==
    LET hp == SplitHostPort(addr)
        s1 == IF addr # NoAddr /\ hp.ok /\ hp.host # <<>>
              THEN SetTag(sp, "out.host", hp.host) ELSE sp
        s2 == IF addr # NoAddr /\ hp.ok
              THEN SetTag(s1, "out.port", hp.port) ELSE s1
    IN SetTag(s2, tagCode, Code(err))

\* the span finished before the tags are set
ClientFinishedThenTagged(sp, addr, err) == ClientTagged(Finish(sp, err), addr, err)

\* lines 103-114: the tags, then span.Finish(tracer.WithError(err))
ClientFinished(sp, addr, err) == Finish(ClientTagged(sp, addr, err), err)

\* line 115: return err
ClientReturn(err) == err

\* lines 103-115: after the invoker returned: tag, finish, return err
ClientFinish(c) ==
    /\ call[c].pc = "invoked"
    /\ spans' = [spans EXCEPT ![CliSpanID(c)] =
                    ClientFinished(@, call[c].peer, call[c].ierr)]
    /\ call' = [call EXCEPT ![c].pc = "done", ![c].cret = ClientReturn(call[c].ierr)]
    /\ UNCHANGED <<setup, backing, mdHeap, others>>

\* --------------------------------------------------- UnaryServerInterceptor

\* lines 53-63: the copy of opts and the seven options appended to it
ServerOpts(opts, method, service) ==
    opts \o << ServiceName(service), ResourceName(method), Tag(tagMethod, method),
               SpanType("rpc"), Measured,
               Tag("component", "google.golang.org/grpc.v12"),
               Tag("span.kind", "server") >>

\* lines 50-69: the start options of the server span for inbound metadata md
startSpanFromContext(md, method, service, opts) ==
    LET optsLocal == ServerOpts(opts, method, service)
        x == Extract(md)
    IN IF x.ok THEN Append(optsLocal, ChildOf(x.ctx)) ELSE optsLocal

\* line 43: span, ctx := startSpanFromContext(ctx, info.FullMethod, ...)
ServerStart(c) ==
    /\ call[c].pc = "sent"
    /\ spans' = [spans EXCEPT ![SrvSpanID(c)] =
          StartSpan(@, SrvSpanID(c), "grpc.server",
              startSpanFromContext(call[c].wire, Method(c), srvCfg.serviceName,
                  SubSeq(backing.server, 1, Len(srvCfg.spanOpts.elems))))]
    /\ call' = [call EXCEPT ![c].pc = "handler", ![c].scalls = @ + 1]
    /\ UNCHANGED <<setup, backing, mdHeap, others>>

\* line 44: resp, err := handler(ctx, req)
HandlerRun(c) ==
    /\ call[c].pc = "handler"
    /\ \E r \in HandlerResults :
         call' = [call EXCEPT ![c].pc = "handled",
                              ![c].hcalls = @ + 1,
                              ![c].hres = r]
    /\ UNCHANGED <<setup, backing, spans, mdHeap, others>>

\* a return that swallows the handler's error
ServerReturnNoError(r) == [r EXCEPT !.err = Nil]

\* line 46: return resp, err
ServerReturn(r) == r

\* the span left open when the handler failed
ServerFinishedUnlessError(sp, err) == IF err # Nil THEN sp ELSE Finish(sp, err)

\* line 45: span.Finish(tracer.WithError(err))
ServerFinished(sp, err) == Finish(sp, err)

\* lines 45-46: span.Finish(tracer.WithError(err)); return resp, err
ServerFinish(c) ==
    /\ call[c].pc = "handled"
    /\ spans' = [spans EXCEPT ![SrvSpanID(c)] = ServerFinished(@, call[c].hres.err)]
    /\ call' = [call EXCEPT ![c].pc = "replied", ![c].sret = ServerReturn(call[c].hres)]
    /\ UNCHANGED <<setup, backing, mdHeap, others>>

\* one step of call c once it has begun
CallStep(c) ==
        \/ ClientStartSpan(c)
        \/ ClientInject(c)
        \/ InvokerSend(c)
        \/ InvokerFail(c)
        \/ ServerStart(c)
        \/ HandlerRun(c)
        \/ ServerFinish(c)
        \/ InvokerReturn(c)
        \/ ClientFinish(c)

\* the calls run concurrently, each in its own goroutine
Next == \E c \in Calls : ClientAppend(c) \/ CallStep(c)

Spec == Init /\ [][Next]_vars

\* call c is made when no other call is in flight
NoneInFlight(c) == \A d \in Calls \ {c} : call[d].pc \in {"idle", "done"}

SeqAppend(c) == NoneInFlight(c) /\ ClientAppend(c)

NextSeq == \E c \in Calls : SeqAppend(c) \/ CallStep(c)

SpecSeq == InitSeq /\ [][NextSeq]_vars


\* ------------------------------------------------------------ claims: gRPC

\* the server interceptor of call c has returned
ServerReturned(c) ==
    call[c].scalls > 0 /\ call[c].pc \in {"replied", "invoked", "done"}

\* no call is in flight
Quiescent == \A c \in Calls : call[c].pc \in {"idle", "done"}

RECURSIVE SumOver(_, _)
SumOver(S, f) ==
    IF S = {} THEN 0
    ELSE LET x == CHOOSE y \in S : TRUE IN f[x] + SumOver(S \ {x}, f)

\* C1: every intercepted call starts exactly one span and finishes that span
\* exactly once, after the wrapped handler or invoker has returned, with the
\* error attached iff the wrapped call returned one; once no call is in flight
\* the finished spans, the started spans and the intercepted calls are equal in
\* number and no span is open.
C1_OneSpanPerCall ==
    /\ \A c \in Calls :
        LET cs == spans[CliSpanID(c)]
            ss == spans[SrvSpanID(c)]
        IN /\ cs.started = (IF call[c].pc \in {"idle", "appended"} THEN 0 ELSE 1)
           /\ cs.finished = (IF call[c].pc = "done" THEN 1 ELSE 0)
           /\ cs.finished = 1 => call[c].icalls = 1 /\ cs.error = call[c].ierr
           /\ ss.started = call[c].scalls
           /\ ss.finished = (IF ServerReturned(c) THEN 1 ELSE 0)
           /\ ss.finished = 1 => call[c].hcalls = 1 /\ ss.error = call[c].hres.err
    /\ Quiescent =>
        LET n == SumOver(Calls, [c \in Calls |->
                    (IF call[c].pc = "done" THEN 1 ELSE 0) + call[c].scalls])
        IN /\ SumOver(SpanIDs, [i \in SpanIDs |-> spans[i].started]) = n
           /\ SumOver(SpanIDs, [i \in SpanIDs |-> spans[i].finished]) = n

\* C1 witness: a call whose handler was cancelled is over; both spans carry the error
C1_Witness ==
    \E c \in Calls :
        /\ call[c].pc = "done"
        /\ call[c].hres.err = "canceled"
        /\ spans[SrvSpanID(c)].finished = 1 /\ spans[SrvSpanID(c)].error = "canceled"
        /\ spans[CliSpanID(c)].finished = 1 /\ spans[CliSpanID(c)].error = "canceled"

\* C2: the server interceptor returns the handler's (response, error) pair and
\* the client interceptor the invoker's error, unchanged; the handler and the
\* invoker are called exactly once per intercepted call.
C2_OutcomePassedThrough ==
    \A c \in Calls :
        /\ call[c].hcalls <= 1 /\ call[c].icalls <= 1 /\ call[c].scalls <= 1
        /\ ServerReturned(c) => call[c].hcalls = 1 /\ call[c].sret = call[c].hres
        /\ call[c].pc = "done" => call[c].icalls = 1 /\ call[c].cret = call[c].ierr
        /\ call[c].pc \in {"invoked", "done"} /\ call[c].scalls = 1 =>
               call[c].ierr = call[c].hres.err

\* C2 witness: a handler error came back through both interceptors
C2_Witness ==
    \E c \in Calls :
        /\ call[c].pc = "done"
        /\ call[c].hres = [resp |-> Nil, err |-> "internal"]
        /\ call[c].sret = call[c].hres
        /\ call[c].cret = "internal"

\* the service name an option sets: the last WithServiceName of the list, or ""
RECURSIVE OptionService(_)
OptionService(opts) ==
    IF opts = <<>> THEN ""
    ELSE IF opts[Len(opts)].field = "serviceName" THEN opts[Len(opts)].str
    ELSE OptionService(SubSeq(opts, 1, Len(opts) - 1))

\* option > global > fallback
ResolvedService(opts, global, fallback) ==
    IF OptionService(opts) # "" THEN OptionService(opts)
    ELSE IF global # "" THEN global
    ELSE fallback

HasService(sp, name) ==
    "service.name" \in DOMAIN sp.tags /\ sp.tags["service.name"] = name

\* C3 (as claimed): every span of the server and of the client interceptor
\* carries the service name resolved option > global > fallback.
C3_ServiceResolution ==
    \A c \in Calls :
        /\ spans[SrvSpanID(c)].started > 0 =>
             HasService(spans[SrvSpanID(c)],
                        ResolvedService(ctorOpts, globalService, "grpc.server"))
        /\ spans[CliSpanID(c)].started > 0 =>
             HasService(spans[CliSpanID(c)],
                        ResolvedService(ctorOpts, globalService, "grpc.client"))

\* the server half of C3 alone
C3_ServerOnly ==
    \A c \in Calls :
        spans[SrvSpanID(c)].started > 0 =>
            HasService(spans[SrvSpanID(c)],
                       ResolvedService(ctorOpts, globalService, "grpc.server"))

\* C4 (as claimed): the server span of a call is a child of the client span of
\* the same call.
C4_ParentRoundTrip ==
    \A c \in Calls :
        spans[SrvSpanID(c)].started > 0 =>
            /\ spans[SrvSpanID(c)].parentID = CliSpanID(c)
            /\ spans[SrvSpanID(c)].traceID = spans[CliSpanID(c)].traceID

\* C8 (as claimed): no call writes to the span options of the configuration or
\* to their backing array, and the span of each call carries the method tag of
\* that call.
C8_ConfigImmutable ==
    /\ backing.client = Padded(cliCfg.spanOpts)
    /\ backing.server = Padded(srvCfg.spanOpts)
    /\ \A c \in Calls :
        /\ spans[CliSpanID(c)].started > 0 =>
             spans[CliSpanID(c)].tags[tagMethod] = Method(c)
        /\ spans[SrvSpanID(c)].started > 0 =>
             spans[SrvSpanID(c)].tags[tagMethod] = Method(c)

\* the second half of C8 alone: each span carries its own call's method tag
C8_OwnMethodTag ==
    \A c \in Calls :
        spans[CliSpanID(c)].started > 0 =>
            spans[CliSpanID(c)].tags[tagMethod] = Method(c)

\* the tags a finished client span must carry for peer address addr
PeerTagsOk(tags, addr) ==
    LET hp == SplitHostPort(addr)
        split == addr # NoAddr /\ hp.ok
    IN /\ ("out.port" \in DOMAIN tags) = split
       /\ split => tags["out.port"] = hp.port
       /\ ("out.host" \in DOMAIN tags) = (split /\ hp.host # <<>>)
       /\ (split /\ hp.host # <<>>) => tags["out.host"] = hp.host

\* C9: in a client call the span is started, then the context injected, then
\* the invoker called, then the tags set, and the span finished last; the status
\* code tag is set on every call, the target host and port tags only for a
\* resolved peer address that splits; no tag is set after the finish.
C9_ClientOrder ==
    \A c \in Calls :
        LET cs == spans[CliSpanID(c)] IN
        /\ call[c].md # -1 => cs.started = 1
        /\ call[c].icalls > 0 =>
             /\ call[c].md # -1
             /\ call[c].pc = "sent" => Extract(call[c].wire).ok
        /\ cs.finished = 0 =>
             DOMAIN cs.tags \cap {tagCode, "out.host", "out.port"} = {}
        /\ cs.finished > 0 =>
             /\ call[c].icalls = 1
             /\ tagCode \in DOMAIN cs.tags
             /\ cs.tags[tagCode] = Code(call[c].ierr)
             /\ PeerTagsOk(cs.tags, call[c].peer)
        /\ ~cs.late

\* C9 witness: a finished span with a port tag and no host tag (peer ":5")
C9_Witness ==
    \E c \in Calls :
        /\ spans[CliSpanID(c)].finished = 1
        /\ call[c].peer = <<":", "5">>
        /\ "out.port" \in DOMAIN spans[CliSpanID(c)].tags
        /\ "out.host" \notin DOMAIN spans[CliSpanID(c)].tags
        /\ spans[CliSpanID(c)].tags[tagCode] = "Canceled"

\* C10 (as claimed): the metadata object of the caller is left as it was, and
\* the metadata an invoker sends carries the identifiers of its own span.
C10_CallerMetadataUnchanged ==
    /\ mdHeap[0] = CallerMD
    /\ \A c \in Calls :
         call[c].pc = "sent" => Extract(call[c].wire).ctx.spanID = CliSpanID(c)

\* the second half of C10 alone
C10_OwnIdentifiers ==
    \A c \in Calls :
        call[c].pc = "sent" => Extract(call[c].wire).ctx.spanID = CliSpanID(c)


\* ===================================================== option lists (C7)

\* Register(name, driver, opts...): the configuration stored for the driver
RegisterConfig(name, opts) ==
    LET cfg == ApplyOptions(Defaults, opts) IN
    IF cfg.serviceName = "" THEN [cfg EXCEPT !.serviceName = name \o ".db"] ELSE cfg

\* Open(name, dsn, opts...): the registered configuration, then the options
OpenConfig(registered, opts) == ApplyOptions(registered, opts)

OptionLists == SeqsUpTo(AllOptions, MaxOpts)

InitOptions ==
    /\ IdleGrpc /\ InitReg /\ InitConn
    /\ \E g \in {"", "global-svc"}, a \in OptionLists, b \in OptionLists :
         cfgIn = [global |-> g, first |-> a, second |-> b]
    /\ cfgOut = [server |-> NoCfg, client |-> NoCfg, registered |-> NoCfg, opened |-> NoCfg]

\* UnaryServerInterceptor(first...)
BuildServer ==
    /\ cfgOut.server = NoCfg
    /\ cfgOut' = [cfgOut EXCEPT !.server = ServerConfig(cfgIn.first, cfgIn.global)]
    /\ UNCHANGED <<cfgIn, grpcVars, regVars, connVars>>

\* UnaryClientInterceptor(first...)
BuildClient ==
    /\ cfgOut.client = NoCfg
    /\ cfgOut' = [cfgOut EXCEPT !.client = ClientConfig(cfgIn.first, cfgIn.global)]
    /\ UNCHANGED <<cfgIn, grpcVars, regVars, connVars>>

\* Register("postgres", driver, first...)
BuildRegistered ==
    /\ cfgOut.registered = NoCfg
    /\ cfgOut' = [cfgOut EXCEPT !.registered = RegisterConfig("postgres", cfgIn.first)]
    /\ UNCHANGED <<cfgIn, grpcVars, regVars, connVars>>

\* Open("postgres", dsn, second...)
BuildOpened ==
    /\ cfgOut.registered # NoCfg
    /\ cfgOut.opened = NoCfg
    /\ cfgOut' = [cfgOut EXCEPT !.opened = OpenConfig(cfgOut.registered, cfgIn.second)]
    /\ UNCHANGED <<cfgIn, grpcVars, regVars, connVars>>

NextOptions == BuildServer \/ BuildClient \/ BuildRegistered \/ BuildOpened

SpecOptions == InitOptions /\ [][NextOptions]_vars

\* ========================================================== Register (C5)

\* a table without mutual exclusion
NeverLocked == TRUE

\* the mutex of the table is free
LockFree == regLock = 0

\* goroutine h is between the acquisition and the release of the mutex
InCritical(h) == reg[h].pc \in {"locked", "checked", "added"}

\* Register(name, driver): the goroutine is started with its driver name
RegisterBegin(g) ==
    /\ reg[g].pc = "idle"
    /\ \E n \in Names : reg' = [reg EXCEPT ![g].pc = "called", ![g].name = n]
    /\ UNCHANGED <<registry, regLock, regFault, grpcVars, optVars, connVars>>

\* the mutex is acquired
RegisterLock(g) ==
    /\ reg[g].pc = "called"
    /\ LockFree
    /\ regLock' = g
    /\ reg' = [reg EXCEPT ![g].pc = "locked"]
    /\ UNCHANGED <<registry, regFault, grpcVars, optVars, connVars>>

\* is the name in the table already
RegisterCheck(g) ==
    /\ reg[g].pc = "locked"
    /\ reg' = [reg EXCEPT ![g].pc = "checked",
                          ![g].found = registry[reg[g].name].owner # 0]
    /\ UNCHANGED <<registry, regLock, regFault, grpcVars, optVars, connVars>>

\* a name already registered is left alone; a new one is entered
RegisterAdd(g) ==
    /\ reg[g].pc = "checked"
    /\ registry' = IF reg[g].found THEN registry
                   ELSE [registry EXCEPT ![reg[g].name] =
                            [owner |-> g, writes |-> @.writes + 1]]
    /\ regFault' = (regFault \/ (~reg[g].found /\ \E h \in Goroutines \ {g} : InCritical(h)))
    /\ reg' = [reg EXCEPT ![g].pc = "added"]
    /\ UNCHANGED <<regLock, grpcVars, optVars, connVars>>

\* the mutex is released and Register returns
RegisterUnlock(g) ==
    /\ reg[g].pc = "added"
    /\ regLock' = 0
    /\ reg' = [reg EXCEPT ![g].pc = "done"]
    /\ UNCHANGED <<registry, regFault, grpcVars, optVars, connVars>>

NextRegister ==
    \E g \in Goroutines :
        \/ RegisterBegin(g)
        \/ RegisterLock(g)
        \/ RegisterCheck(g)
        \/ RegisterAdd(g)
        \/ RegisterUnlock(g)

InitRegister == IdleGrpc /\ IdleOpt /\ InitReg /\ InitConn

SpecRegister == InitRegister /\ [][NextRegister]_vars

\* =========================================================== Connect (C6)

driverName == "hangingConnector"

\* a span that is finished only when the operation itself completed
FinishUnlessCancelled(sp, err) ==
    IF err = "context canceled" THEN sp
    ELSE [sp EXCEPT !.finished = @ + 1, !.name = driverName \o ".query",
                    !.queryType = "Connect", !.error = err]

\* the span of a Connect attempt, finished with err
FinishConnSpan(sp, err) ==
    [sp EXCEPT !.finished = @ + 1,
               !.name = driverName \o ".query",
               !.queryType = "Connect",
               !.error = IF sp.finished = 0 THEN err ELSE @]

\* tracedConnector.Connect(ctx) is called: the underlying Connect starts
ConnectBegin(a) ==
    /\ conn[a].pc = "idle"
    /\ \E k \in {"hanging", "driver"} :
         conn' = [conn EXCEPT ![a].pc = "waiting", ![a].kind = k, ![a].under = "running"]
    /\ connSpans' = [connSpans EXCEPT ![a].started = @ + 1]
    /\ UNCHANGED <<grpcVars, optVars, regVars>>

\* the caller cancels the context of the attempt
CancelCtx(a) ==
    /\ ~conn[a].cancelled
    /\ conn[a].pc # "returned"
    /\ conn' = [conn EXCEPT ![a].cancelled = TRUE]
    /\ UNCHANGED <<connSpans, grpcVars, optVars, regVars>>

\* what the underlying Connect may return: the hanging connector only its
\* error, and only once the context is done
UnderlyingResults(kind, cancelled) ==
    IF kind = "hanging"
    THEN (IF cancelled THEN {"context cancelled"} ELSE {})
    ELSE {Nil, "driver error"}

\* the underlying connector's Connect returns
ConnectorReturn(a) ==
    /\ conn[a].under = "running"
    /\ \E r \in UnderlyingResults(conn[a].kind, conn[a].cancelled) :
         conn' = [conn EXCEPT ![a].under = "returned", ![a].result = r]
    /\ UNCHANGED <<connSpans, grpcVars, optVars, regVars>>

\* the wait ends with the operation: the span is finished with its error
ConnectDone(a) ==
    /\ conn[a].pc = "waiting"
    /\ conn[a].under = "returned"
    /\ connSpans' = [connSpans EXCEPT ![a] = FinishConnSpan(@, conn[a].result)]
    /\ conn' = [conn EXCEPT ![a].pc = "returned", ![a].ret = conn[a].result]
    /\ UNCHANGED <<grpcVars, optVars, regVars>>

\* the wait ends with the cancellation: the span is finished with ctx.Err()
ConnectCancelled(a) ==
    /\ conn[a].pc = "waiting"
    /\ conn[a].cancelled
    /\ connSpans' = [connSpans EXCEPT ![a] = FinishConnSpan(@, "context canceled")]
    /\ conn' = [conn EXCEPT ![a].pc = "returned", ![a].ret = "context canceled"]
    /\ UNCHANGED <<grpcVars, optVars, regVars>>

NextConnect ==
    \E a \in Attempts :
        \/ ConnectBegin(a)
        \/ CancelCtx(a)
        \/ ConnectorReturn(a)
        \/ ConnectDone(a)
        \/ ConnectCancelled(a)

InitConnect == IdleGrpc /\ IdleOpt /\ InitReg /\ InitConn

\* the goroutines of an attempt are scheduled: the underlying Connect returns
\* when it can, and the wait ends when one of its two branches is ready
SpecConnect ==
    /\ InitConnect
    /\ [][NextConnect]_vars
    /\ \A a \in Attempts :
         /\ WF_vars(ConnectorReturn(a))
         /\ WF_vars(ConnectDone(a) \/ ConnectCancelled(a))


\* ------------------------------------------------- claims: database/sql

Fields == {"serviceName", "analyticsRate", "spanOpts"}

\* the position of the last option of opts that sets field f, 0 for none
LastSetting(opts, f) ==
    IF \E i \in 1..Len(opts) : opts[i].field = f
    THEN CHOOSE i \in 1..Len(opts) :
            opts[i].field = f /\ \A j \in (i + 1)..Len(opts) : opts[j].field # f
    ELSE 0

OptionValue(o) == IF o.field = "spanOpts" THEN o.slice ELSE o.str

\* field f of cfg is what the last option of opts setting f gave it, or what
\* base had; an empty service name is left to the resolution of the default
LaterWins(cfg, base, opts, f) ==
    LET i == LastSetting(opts, f) IN
    IF i = 0 THEN cfg[f] = base[f]
    ELSE (f = "serviceName" /\ opts[i].str = "") \/ cfg[f] = OptionValue(opts[i])

Writers(n) ==
    { g \in Goroutines : reg[g].name = n /\ reg[g].pc \in {"added", "done"} /\ ~reg[g].found }

\* C5: concurrent Register calls never fault, every name a finished call gave
\* is registered, each name is entered exactly once, and a call that finds its
\* name registered leaves the entry as it is.
C5_RegisterOnce ==
    /\ ~regFault
    /\ \A n \in Names :
        /\ registry[n].writes <= 1
        /\ Cardinality(Writers(n)) = registry[n].writes
        /\ registry[n].owner # 0 => Writers(n) = {registry[n].owner}
    /\ \A g \in Goroutines :
        reg[g].pc \in {"added", "done"} =>
            /\ registry[reg[g].name].writes = 1
            /\ reg[g].found => registry[reg[g].name].owner # g

\* C5 witness: every goroutine is done, two of them used the same name, and
\* the later one found it registered
C5_Witness ==
    /\ \A g \in Goroutines : reg[g].pc = "done"
    /\ \E g, h \in Goroutines :
        /\ g # h /\ reg[g].name = reg[h].name
        /\ reg[h].found /\ registry[reg[g].name].owner = g
    /\ \A n \in Names : registry[n].owner # 0

CancelErrors == {"context canceled", "context cancelled"}

\* every returned attempt has one finished span, every other none; an attempt
\* on a hanging connector returns only cancelled, its span named and tagged
ConnectSpanOnce ==
    \A a \in Attempts :
        /\ connSpans[a].finished = (IF conn[a].pc = "returned" THEN 1 ELSE 0)
        /\ connSpans[a].started = (IF conn[a].pc = "idle" THEN 0 ELSE 1)
        /\ (conn[a].pc = "returned" /\ conn[a].kind = "hanging") =>
             /\ conn[a].cancelled
             /\ connSpans[a].name = "hangingConnector.query"
             /\ connSpans[a].queryType = "Connect"
             /\ connSpans[a].error \in CancelErrors
             /\ conn[a].ret \in CancelErrors

\* C6: when the context is cancelled while Connect waits on a connector that
\* blocks until cancellation, Connect eventually returns, and exactly one span
\* is finished for the attempt, named "<driverName>.query", tagged Connect and
\* carrying the cancellation error.
C6_CancelledConnect ==
    /\ []ConnectSpanOnce
    /\ \A a \in Attempts :
         (conn[a].pc = "waiting" /\ conn[a].kind = "hanging" /\ conn[a].cancelled)
             ~> (conn[a].pc = "returned")

\* C6 witness: a cancelled attempt on the hanging connector has returned
C6_Witness ==
    \E a \in Attempts :
        /\ conn[a].kind = "hanging" /\ conn[a].cancelled /\ conn[a].pc = "returned"
        /\ connSpans[a].finished = 1
        /\ connSpans[a].error \in CancelErrors

====
